---- MODULE Spec2Model ----
(***************************************************************************)
(* Model of the coolant hose calculator                                    *)
(* (src/AIprojects/pressureFlowCalcGPT5m.py): the fluid primitives, the    *)
(* forward solver pressure_drop_pipe and the inverse solver                *)
(* flow_from_pump_pressure.                                                *)
(*                                                                         *)
(* Python floats are modelled as binary floating-point numbers m * 2^e     *)
(* with a Prec-bit mantissa and round-to-nearest-even, the rounding of     *)
(* IEEE-754 doubles at a smaller width: every product, quotient, sum and   *)
(* square root of the source is one rounded operation here.  The exponent  *)
(* is unbounded (no value of the calculator comes near the double range).  *)
(***************************************************************************)
EXTENDS Integers, Sequences, FiniteSets

\* Mantissa width of the modelled floats, in bits.
Prec == 12

\* The element of a one-element set.  {F(x) : x \in {e}} evaluates e once,
\* whatever the number of uses of x in F.
Only(S) == CHOOSE x \in S : TRUE

RECURSIVE Pow2(_)
Pow2(n) == IF n <= 0 THEN 1 ELSE 2 * Pow2(n - 1)

Abs(n) == IF n < 0 THEN -n ELSE n

Sgn(n) == IF n < 0 THEN -1 ELSE IF n = 0 THEN 0 ELSE 1

\* Number of bits of a natural number (0 for 0).
RECURSIVE BitLen(_)
BitLen(n) == IF n <= 0 THEN 0 ELSE 1 + BitLen(n \div 2)

\* n / 2^s rounded to the nearest integer, ties to even (n >= 0, s >= 1).
RoundShift(n, s) ==
    LET q == n \div Pow2(s)
        r == n % Pow2(s)
        half == Pow2(s - 1)
    IN  IF r > half \/ (r = half /\ q % 2 = 1) THEN q + 1 ELSE q

\* The float nearest to mm * 2^ee, for integers mm and ee.
NormInt(mm, ee, nb) ==
    IF nb <= Prec
    THEN [m |-> mm * Pow2(Prec - nb), e |-> ee - (Prec - nb)]
    ELSE LET s == nb - Prec
             q == RoundShift(Abs(mm), s)
         IN  IF q = Pow2(Prec)
             THEN [m |-> Sgn(mm) * Pow2(Prec - 1), e |-> ee + s + 1]
             ELSE [m |-> Sgn(mm) * q, e |-> ee + s]

Norm(m, e) ==
    Only({IF mm = 0 THEN [m |-> 0, e |-> 0] ELSE NormInt(mm, ee, BitLen(Abs(mm))) :
            mm \in {m}, ee \in {e}})

FZero == [m |-> 0, e |-> 0]

FromInt(n) == Norm(n, 0)

FNeg(a) == Only({[m |-> -x.m, e |-> x.e] : x \in {a}})

FAbs(a) == Only({[m |-> Abs(x.m), e |-> x.e] : x \in {a}})

FMul(a, b) == Only({Norm(x.m * y.m, x.e + y.e) : x \in {a}, y \in {b}})

\* a / b for b # 0 (the callers raise ZeroDivisionError before they get here).
FDiv(a, b) ==
    Only({IF x.m = 0 THEN FZero
          ELSE LET n == Abs(x.m) * Pow2(Prec + 2)
                   d == Abs(y.m)
                   sticky == IF n % d = 0 THEN 0 ELSE 1
               IN  Norm(Sgn(x.m) * Sgn(y.m) * (2 * (n \div d) + sticky),
                        x.e - y.e - (Prec + 2) - 1) :
            x \in {a}, y \in {b}})

\* x + y with the exponent of x at least that of y.
AddAligned(x, y) ==
    IF x.e - y.e > Prec + 1 THEN x ELSE Norm(x.m * Pow2(x.e - y.e) + y.m, y.e)

FAdd(a, b) ==
    Only({IF x.m = 0 THEN y
          ELSE IF y.m = 0 THEN x
          ELSE IF x.e >= y.e THEN AddAligned(x, y) ELSE AddAligned(y, x) :
            x \in {a}, y \in {b}})

FSub(a, b) == FAdd(a, FNeg(b))

FLt(a, b) == FSub(a, b).m < 0

FLe(a, b) == FSub(a, b).m <= 0

FPos(a) == a.m > 0

\* A decimal literal n/d of the source.
Dec(n, d) == FDiv(FromInt(n), FromInt(d))

\* Largest s with s*s <= n, by bisection on [lo, hi).
RECURSIVE ISqrtIn(_, _, _)
ISqrtIn(n, lo, hi) ==
    IF hi - lo <= 1 THEN lo
    ELSE Only({IF mid * mid <= n THEN ISqrtIn(n, mid, hi) ELSE ISqrtIn(n, lo, mid) :
                 mid \in {(lo + hi) \div 2}})

ISqrt(n) == Only({ISqrtIn(nn, 0, Pow2((BitLen(nn) + 1) \div 2)) : nn \in {n}})

\* math.sqrt of a float a >= 0 (the callers raise ValueError for a < 0).
FSqrt(a) ==
    Only({IF x.m = 0 THEN FZero
          ELSE Only({Only({Norm(2 * s + (IF s * s = x.m * Pow2(t) THEN 0 ELSE 1),
                                ((x.e - t) \div 2) - 1) :
                             s \in {ISqrt(x.m * Pow2(t))}}) :
                       t \in {IF (x.e - (Prec + 2)) % 2 = 0 THEN Prec + 2 ELSE Prec + 3}}) :
            x \in {a}})

\* Fixed-point width used inside the logarithm and the power.
FracBits == Prec + 1

\* Bits of log2(y / 2^FracBits) for 2^FracBits <= y < 2^(FracBits+1), by
\* repeated squaring; j bits are still to be produced, acc holds the others.
RECURSIVE Log2Frac(_, _, _)
Log2Frac(y, j, acc) ==
    IF j = 0 THEN acc
    ELSE Only({IF y2 >= Pow2(FracBits + 1)
               THEN Log2Frac(y2 \div 2, jj, 2 * aa + 1)
               ELSE Log2Frac(y2, jj, 2 * aa) :
                 y2 \in {(y * y) \div Pow2(FracBits)}, jj \in {j - 1}, aa \in {acc}})

\* log2 of a float a > 0.
FLog2(a) ==
    Only({FAdd(FromInt(x.e + Prec - 1),
               Norm(Log2Frac(x.m * Pow2(FracBits - (Prec - 1)), FracBits, 0), -FracBits)) :
            x \in {a}})

\* math.log10 of a float a > 0.
FLog10(a) == FDiv(FLog2(a), FLog2(FromInt(10)))

\* The product of the roots 2^(2^-j) selected by the bits of frac, an integer
\* in units of 2^-FracBits: bit j from the top selects root, the j-th iterated
\* square root of 2; acc is the product so far.
RECURSIVE Exp2Frac(_, _, _, _)
Exp2Frac(frac, j, root, acc) ==
    IF j > FracBits THEN acc
    ELSE Only({Exp2Frac(frac, jj + 1, FSqrt(r),
                        IF (frac \div Pow2(FracBits - jj)) % 2 = 1 THEN FMul(ac, r) ELSE ac) :
                 jj \in {j}, r \in {root}, ac \in {acc}})

\* floor(a * 2^FracBits) of a float a of moderate size.
ToFixed(a) ==
    Only({IF x.e + FracBits >= 0 THEN x.m * Pow2(x.e + FracBits)
          ELSE x.m \div Pow2(-(x.e + FracBits)) : x \in {a}})

\* 2^a for a float a.
FExp2(a) ==
    Only({Only({[m |-> r.m, e |-> r.e + (y \div Pow2(FracBits))] :
                  r \in {Exp2Frac(y % Pow2(FracBits), 1, FSqrt(FromInt(2)), FromInt(1))}}) :
            y \in {ToFixed(a)}})

\* a ** p for floats a >= 0 and p > 0.
FPow(a, p) == Only({IF x.m = 0 THEN FZero ELSE FExp2(FMul(p, FLog2(x))) : x \in {a}})

(***************************************************************************)
(* Values of the program.  An optional result is a record [err, val]: err   *)
(* is "none" or the name of the exception the call raised.                  *)
(***************************************************************************)
Ok(x) == [err |-> "none", val |-> x]

Raise(kind) == [err |-> kind, val |-> FZero]

\* math.pi (355/113 agrees with pi to 7 digits, beyond the mantissa width).
Pi == Dec(355, 113)

\* A fittings argument: None, or a list of fitting keys.
NoneFittings == [none |-> TRUE, items |-> <<>>]

ListOf(xs) == [none |-> FALSE, items |-> xs]

\* Python truthiness of a fittings argument: None and the empty list are falsy.
Truthy(fittings) == ~fittings.none /\ fittings.items # <<>>

m3s_to_lpm(m3s) == FMul(FMul(m3s, FromInt(1000)), FromInt(60))

pa_to_psi(pa) == FDiv(pa, Dec(689475729, 100000))

reynolds_number(rho, mu, v, d) ==
    IF FLe(mu, FZero) \/ FLe(d, FZero) THEN Raise("ValueError")
    ELSE Ok(FDiv(FMul(FMul(rho, v), d), mu))

\* The laminar/turbulent threshold of friction_factor_haland.
LaminarLimit == 2300

\* (k / (3.7 * d))**1.11 + 6.9 / Re, then ( -1.8 * log10(term) )**-2.
HaalandOf(rel, Re) ==
    LET term == FAdd(FPow(rel, Dec(111, 100)), FDiv(Dec(69, 10), Re))
    IN  Only({IF x.m = 0 THEN Raise("ZeroDivisionError")
              ELSE Ok(FDiv(FromInt(1), FMul(x, x))) :
                x \in {FMul(Dec(-18, 10), FLog10(term))}})

HaalandFormula(d, k, Re) ==
    Only({IF sd.m = 0 THEN Raise("ZeroDivisionError")
          ELSE Only({IF rel.m < 0 THEN Raise("TypeError") ELSE HaalandOf(rel, Re) :
                       rel \in {FDiv(k, sd)}}) :
            sd \in {FMul(Dec(37, 10), d)}})

\* friction_factor_haland with the laminar branch taken up to and including the limit.
friction_factor_haland_le(d, k, Re) ==
    IF FLe(Re, FZero) THEN Raise("ValueError")
    ELSE IF FLe(Re, FromInt(LaminarLimit)) THEN Ok(FDiv(FromInt(64), Re))
    ELSE HaalandFormula(d, k, Re)

friction_factor_haland(d, k, Re) ==
    IF FLe(Re, FZero) THEN Raise("ValueError")
    ELSE IF FLt(Re, FromInt(LaminarLimit)) THEN Ok(FDiv(FromInt(64), Re))
    ELSE HaalandFormula(d, k, Re)

\* The literals of STANDARD_FITTING_K, each as <<numerator, denominator>>.
FittingLiteral ==
    [n \in {"straight_open_valve", "globe_valve", "gate_valve", "90_elbow_smooth",
            "90_elbow_sharp", "45_elbow", "tee_run", "tee_branch", "hose_barb",
            "full_port_ball_valve", "filter", "quick_connect"} |->
        CASE n = "straight_open_valve" -> <<5, 100>>
          [] n = "globe_valve" -> <<100, 10>>
          [] n = "gate_valve" -> <<2, 10>>
          [] n = "90_elbow_smooth" -> <<3, 10>>
          [] n = "90_elbow_sharp" -> <<15, 10>>
          [] n = "45_elbow" -> <<2, 10>>
          [] n = "tee_run" -> <<6, 10>>
          [] n = "tee_branch" -> <<18, 10>>
          [] n = "hose_barb" -> <<20, 10>>
          [] n = "full_port_ball_valve" -> <<5, 100>>
          [] n = "filter" -> <<10, 10>>
          [] n = "quick_connect" -> <<8, 10>>]

\* The dict as Python holds it: each literal converted to the nearest float.
STANDARD_FITTING_K ==
    [n \in DOMAIN FittingLiteral |-> Dec(FittingLiteral[n][1], FittingLiteral[n][2])]

\* MinorLoop returning the sum so far at an unknown key instead of raising.
RECURSIVE MinorLoopPartial(_, _)
MinorLoopPartial(fs, K_total) ==
    IF fs = <<>> THEN Ok(K_total)
    ELSE IF Head(fs) \notin DOMAIN STANDARD_FITTING_K THEN Ok(K_total)
    ELSE MinorLoopPartial(Tail(fs), FAdd(K_total, STANDARD_FITTING_K[Head(fs)]))

\* The for loop of minor_loss_coeffs over the rest of the list, K_total so far.
RECURSIVE MinorLoop(_, _)
MinorLoop(fs, K_total) ==
    IF fs = <<>> THEN Ok(K_total)
    ELSE IF Head(fs) \notin DOMAIN STANDARD_FITTING_K THEN Raise("KeyError")
    ELSE MinorLoop(Tail(fs), FAdd(K_total, STANDARD_FITTING_K[Head(fs)]))

\* minor_loss_coeffs looking keys up with a default of 0.0 (dict.get).
RECURSIVE MinorLoopGet(_, _)
MinorLoopGet(fs, K_total) ==
    IF fs = <<>> THEN Ok(K_total)
    ELSE MinorLoopGet(Tail(fs),
             FAdd(K_total, IF Head(fs) \in DOMAIN STANDARD_FITTING_K
                           THEN STANDARD_FITTING_K[Head(fs)] ELSE FZero))

minor_loss_coeffs_get(fittings) ==
    IF ~Truthy(fittings) THEN Ok(FZero) ELSE MinorLoopGet(fittings.items, FZero)

minor_loss_coeffs(fittings) ==
    IF ~Truthy(fittings) THEN Ok(FZero) ELSE MinorLoop(fittings.items, FZero)

\* K_total = minor_loss_coeffs(fittings) if fittings else 0.0
KTotalOf(fittings) ==
    IF Truthy(fittings) THEN minor_loss_coeffs(fittings) ELSE Ok(FZero)

\* ReOrZero without the guard: reynolds_number is called whatever v is.
ReAlways(rho, mu, v, d) ==
    Only({[err |-> r.err, val |-> r.val, called |-> TRUE] :
            r \in {reynolds_number(rho, mu, v, d)}})

\* Re = reynolds_number(rho, mu, v, d) if v > 0 else 0.0
ReOrZero(rho, mu, v, d) ==
    IF FPos(v)
    THEN Only({[err |-> r.err, val |-> r.val, called |-> TRUE] :
                 r \in {reynolds_number(rho, mu, v, d)}})
    ELSE [err |-> "none", val |-> FZero, called |-> FALSE]

\* f = friction_factor_haland(d, k, Re) if v > 0 else 0.0
FrictionOrZero(d, k, Re, v) ==
    IF FPos(v)
    THEN Only({[err |-> r.err, val |-> r.val, called |-> TRUE] :
                 r \in {friction_factor_haland(d, k, Re)}})
    ELSE [err |-> "none", val |-> FZero, called |-> FALSE]

\* A = pi * (d/2.0)**2
AreaOf(d) == FMul(Pi, FMul(FDiv(d, FromInt(2)), FDiv(d, FromInt(2))))

\* f_guess = 0.02
f_guess == Dec(2, 100)

\* IterBalance without the break: the update is always followed by another pass.
IterBalanceNoBreak(a, A, v, Q, denom) ==
    IF FLe(denom, FZero)
    THEN [err |-> "RuntimeError", v |-> v, Q |-> Q, brk |-> FALSE, denom |-> <<denom>>]
    ELSE Only({[err |-> "none", v |-> v_new, Q |-> FMul(A, v_new), brk |-> FALSE,
                denom |-> <<denom>>] :
                 v_new \in {FSqrt(FDiv(a.pump_deltaP_pa, denom))}})

\* IterBalance taking denom for the whole rho * (f*(L/d) + K_total), not its
\* half: the update is sqrt(2 * pump_deltaP_pa / denom).
IterBalanceDoubled(a, A, v, Q, denom) ==
    IF FLe(denom, FZero)
    THEN [err |-> "RuntimeError", v |-> v, Q |-> Q, brk |-> FALSE, denom |-> <<denom>>]
    ELSE Only({IF FLt(FAbs(FSub(v_new, v)), a.tol)
               THEN [err |-> "none", v |-> v_new, Q |-> Q, brk |-> TRUE,
                     denom |-> <<denom>>]
               ELSE [err |-> "none", v |-> v_new, Q |-> FMul(A, v_new), brk |-> FALSE,
                     denom |-> <<denom>>] :
                 v_new \in {FSqrt(FDiv(FMul(FromInt(2), a.pump_deltaP_pa), denom))}})

\* The body of the for loop of flow_from_pump_pressure from `denom = ...` on
\* (lines 184-192), entered with velocity v and flow Q.
IterBalance(a, A, v, Q, denom) ==
    IF FLe(denom, FZero)
    THEN [err |-> "RuntimeError", v |-> v, Q |-> Q, brk |-> FALSE, denom |-> <<denom>>]
    ELSE Only({IF FLt(FAbs(FSub(v_new, v)), a.tol)
               THEN [err |-> "none", v |-> v_new, Q |-> Q, brk |-> TRUE,
                     denom |-> <<denom>>]
               ELSE [err |-> "none", v |-> v_new, Q |-> FMul(A, v_new), brk |-> FALSE,
                     denom |-> <<denom>>] :
                 v_new \in {FSqrt(FDiv(a.pump_deltaP_pa, denom))}})

\* One pass of the body of the for loop of flow_from_pump_pressure (lines
\* 182-192), entered with velocity v and flow Q: brk says whether it left the
\* loop by break.
IterStep(a, A, K_total, v, Q) ==
    LET fail(kind) == [err |-> kind, v |-> v, Q |-> Q, brk |-> FALSE, denom |-> <<>>]
        balance(f) ==
            Only({IterBalance(a, A, v, Q, denom) :
                    denom \in {FDiv(FMul(a.rho, FAdd(FMul(f, FDiv(a.L, a.d)), K_total)),
                                    FromInt(2))}})
        friction(Re) ==
            Only({IF fr.err # "none" THEN fail(fr.err) ELSE balance(fr.val) :
                    fr \in {IF FPos(v) THEN friction_factor_haland(a.d, a.k, Re)
                            ELSE Ok(FZero)}})
    IN  Only({IF re.err # "none" THEN fail(re.err) ELSE friction(re.val) :
                re \in {reynolds_number(a.rho, a.mu, v, a.d)}})

(***************************************************************************)
(* Bounds and the inputs the calls are made with.                          *)
(***************************************************************************)
\* Largest maxiter a call is made with (the default of the source is 100).
MaxIter == 3

\* Longest list handed to a direct call of minor_loss_coeffs.
MaxFittings == 3

\* COOLANT_DEFAULT
RhoDefault == FromInt(1050)

MuDefault == Dec(2, 1000)

\* k=1.5e-6 and tol=1e-6, the defaults of the signatures
KDefault == Dec(15, 10000000)

TolDefault == Dec(1, 1000000)

\* The default diameter of the command line, 3/4 inch
DDefault == Dec(1905, 100000)

UnknownName == "not_a_real_fitting"

RECURSIVE SeqsUpTo(_, _)
SeqsUpTo(S, n) ==
    IF n = 0 THEN {<<>>}
    ELSE SeqsUpTo(S, n - 1) \cup
         {Append(xs, x) : xs \in {ys \in SeqsUpTo(S, n - 1) : Len(ys) = n - 1}, x \in S}

MinorNames == {"straight_open_valve", "gate_valve", "globe_valve", UnknownName}

MinorInputs == {NoneFittings} \cup {ListOf(xs) : xs \in SeqsUpTo(MinorNames, MaxFittings)}

SolverFittings ==
    {NoneFittings, ListOf(<<>>), ListOf(<<"globe_valve">>),
     ListOf(<<"gate_valve", "90_elbow_smooth">>),
     ListOf(<<UnknownName>>), ListOf(<<"filter", UnknownName>>)}

BaseArgs ==
    [rho |-> RhoDefault, mu |-> MuDefault, Q |-> FZero, d |-> DDefault,
     L |-> FromInt(10), k |-> KDefault, fittings |-> NoneFittings,
     pump_deltaP_pa |-> FZero, tol |-> TolDefault, maxiter |-> 0, Re |-> FZero,
     today |-> <<1, 1, 1>>, future |-> <<1, 1, 1>>]

FlowInputs ==
    {[BaseArgs EXCEPT !.mu = mu, !.d = d, !.L = L, !.pump_deltaP_pa = P, !.k = k,
                      !.fittings = fs, !.tol = tol, !.maxiter = n] :
        mu \in {MuDefault, FZero},
        k \in {KDefault, FNeg(KDefault)},
        d \in {DDefault, Dec(1, 100), FZero, Dec(-1, 100)},
        L \in {FromInt(10), FZero, FromInt(-1), FromInt(-4)},
        P \in {FromInt(-5), FZero, FromInt(1000), FromInt(11189)},
        fs \in SolverFittings,
        tol \in {TolDefault, Dec(1, 100)},
        n \in 0..MaxIter}

DropInputs ==
    {[BaseArgs EXCEPT !.mu = mu, !.Q = Q, !.d = d, !.L = L, !.fittings = fs] :
        mu \in {MuDefault, FZero, FNeg(MuDefault)},
        Q \in {FZero, Dec(3333, 10000000), Dec(-1, 10000)},
        d \in {DDefault, FZero, Dec(-1, 100)},
        L \in {FromInt(10), FZero, FromInt(-1)},
        fs \in SolverFittings}

\* The largest float below the laminar limit.
BelowLimit == [m |-> FromInt(LaminarLimit).m - 1, e |-> FromInt(LaminarLimit).e]

FrictionInputs ==
    {[BaseArgs EXCEPT !.d = d, !.k = k, !.Re = Re] :
        d \in {DDefault, Dec(1, 100)},
        k \in {KDefault, Dec(1, 10000), FZero},
        Re \in {FromInt(-100), FZero, FromInt(1), FromInt(64), FromInt(1000),
                FromInt(2299), BelowLimit, FromInt(LaminarLimit), FromInt(2301),
                FromInt(4000), FromInt(11696), FromInt(100000)}}

MinorArgs == {[BaseArgs EXCEPT !.fittings = fs] : fs \in MinorInputs}

\* Number of calendar years, from 2023 on, the dates of diff_ymd are taken from
\* (2024 is a leap year).
MaxYears == 2

\* calendar.monthrange(year, month)[1]: the number of days of the month.
DaysInMonth(year, month) ==
    IF month = 2
    THEN (IF year % 4 = 0 /\ (year % 100 # 0 \/ year % 400 = 0) THEN 29 ELSE 28)
    ELSE IF month \in {4, 6, 9, 11} THEN 30 ELSE 31

\* datetime.date values <<year, month, day>>: the first two and the last four
\* days of every month, and one in the middle.
Dates ==
    {<<y, m, d>> : y \in 2023..(2023 + MaxYears - 1), m \in 1..12,
                   d \in {1, 2, 15, 28, 29, 30, 31}} \cap
    {dt \in (2023..(2023 + MaxYears - 1)) \X (1..12) \X (1..31) :
        dt[3] <= DaysInMonth(dt[1], dt[2])}

\* a < b for two dates.
DateBefore(a, b) ==
    \/ a[1] < b[1]
    \/ a[1] = b[1] /\ a[2] < b[2]
    \/ a[1] = b[1] /\ a[2] = b[2] /\ a[3] < b[3]

\* The pairs get_future_date returns: today and a later date.
DateInputs ==
    {[BaseArgs EXCEPT !.today = p[1], !.future = p[2]] :
        p \in {q \in Dates \X Dates : DateBefore(q[1], q[2])}}

diff_ymd(today, future) ==
    LET y1 == today[1]  m1 == today[2]  d1 == today[3]
        borrow == future[3] < d1
        m2a == IF borrow THEN (IF future[2] - 1 = 0 THEN 12 ELSE future[2] - 1)
               ELSE future[2]
        y2a == IF borrow /\ future[2] - 1 = 0 THEN future[1] - 1 ELSE future[1]
        days == IF borrow THEN future[3] + DaysInMonth(y2a, m2a) - d1
                ELSE future[3] - d1
        m2b == IF m2a < m1 THEN m2a + 12 ELSE m2a
        y2b == IF m2a < m1 THEN y2a - 1 ELSE y2a
    IN  [years |-> y2b - y1, months |-> m2b - m1, days |-> days]

\* maxiter of the calls of a round trip (the default of the source is 100).
TripIter == 8

\* Flows of a round trip: 20 L/min (the --flow example of the module
\* docstring, turbulent), two laminar flows (Re about 1000 and 2290) and a
\* creeping one (velocity 1e-4 m/s).
TripFlows ==
    {Dec(3333, 10000000), Dec(285, 10000000), Dec(6526, 100000000),
     FMul(Dec(285, 1000000), Dec(1, 10000))}

TripInputs ==
    {[BaseArgs EXCEPT !.Q = Q, !.L = L, !.fittings = fs, !.maxiter = TripIter] :
        Q \in TripFlows,
        L \in {FromInt(10), FZero},
        fs \in {NoneFittings, ListOf(<<"globe_valve">>)}}

(***************************************************************************)
(* State: one call of one function of the module, from entry to its return  *)
(* or its exception.                                                        *)
(***************************************************************************)
VARIABLES
    caller,    \* "direct": one call; "round_trip": pressure_drop_pipe, then
               \* flow_from_pump_pressure with the total loss it returned
    fn,        \* the function called
    args,      \* its arguments
    pc,        \* where the call stands
    A,         \* local A
    K_total,   \* local K_total
    v,         \* local v
    Q,         \* local Q
    i,         \* number of values the for loop has drawn from range(maxiter)
    denom,     \* <<x>>: the last energy-balance denominator computed; <<>>: none yet
    loopExit,  \* how the for loop was left: "none", "break" or "else"
    calls,     \* the helper functions called so far
    outcome,   \* "pending", "returned", or the exception raised
    ret        \* the value returned

\* The variables of a call of the calculator.
callVars == <<caller, fn, args, pc, A, K_total, v, Q, i, denom, loopExit, calls, outcome, ret>>

(***************************************************************************)
(* State of a CountdownTimer (src/AIprojects/timer.py) and of the Tk event  *)
(* loop it runs in.  Every handler runs to completion before the event loop *)
(* takes the next event.                                                    *)
(***************************************************************************)
VARIABLES
    running,      \* self.running
    flashing,     \* self.flashing
    timer_id,     \* self._timer_id: None, or the id root.after returned for _tick
    flash_id,     \* self._flash_id: None, or the id root.after returned for _flash
    remaining,    \* self.remaining
    flash_state,  \* self.flash_state
    after,        \* the callbacks root.after has scheduled and that have neither
                  \* fired nor been cancelled: records [id, cb]
    total,        \* the total the last start() read
    ticks,        \* calls of _tick since that start()
    timeUps,      \* calls of _time_up since that start()
    stopped       \* whether Stop was clicked since that start()

timerVars == <<running, flashing, timer_id, flash_id, remaining, flash_state, after,
               total, ticks, timeUps, stopped>>

vars == <<callVars, timerVars>>

\* Largest number of seconds the spinboxes are set to.
MaxSeconds == 3

\* None, as the value of _timer_id and _flash_id (the ids of root.after are
\* non-empty strings, truthy; here the numbers from 1 on).
None == 0

\* What start() finds in the three spinboxes: numbers <<h, m, s>>, or text
\* that int() rejects.
SpinInputs ==
    {[isint |-> TRUE, hms |-> <<0, 0, sec>>] : sec \in -1..MaxSeconds}
        \cup {[isint |-> TRUE, hms |-> <<0, 1, -59>>],
              [isint |-> FALSE, hms |-> <<0, 0, 0>>]}

\* CountdownTimer.__init__: the fields of a new timer; no _tick or _flash is
\* scheduled.
TimerInit ==
    /\ running = FALSE /\ flashing = FALSE
    /\ timer_id = None /\ flash_id = None
    /\ remaining = 0 /\ flash_state = FALSE
    /\ after = {}
    /\ total = 0 /\ ticks = 0 /\ timeUps = 0 /\ stopped = FALSE

\* The timer and its event loop as one record, for the methods below.
Self ==
    [running |-> running, flashing |-> flashing, timer_id |-> timer_id,
     flash_id |-> flash_id, remaining |-> remaining, flash_state |-> flash_state,
     after |-> after, total |-> total, ticks |-> ticks, timeUps |-> timeUps,
     stopped |-> stopped]

\* The timer is left as the record st says.
Becomes(st) ==
    /\ running' = st.running /\ flashing' = st.flashing
    /\ timer_id' = st.timer_id /\ flash_id' = st.flash_id
    /\ remaining' = st.remaining /\ flash_state' = st.flash_state
    /\ after' = st.after
    /\ total' = st.total /\ ticks' = st.ticks /\ timeUps' = st.timeUps
    /\ stopped' = st.stopped

\* The id root.after returns: one that no scheduled callback has and that the
\* timer does not hold (Tk numbers its ids upwards and never repeats one).
NewId(st) ==
    LET used == {c.id : c \in st.after} \cup {st.timer_id, st.flash_id, None}
    IN  CHOOSE n \in 1..(Cardinality(used) + 1) :
            n \notin used /\ \A k \in 1..(n - 1) : k \in used

\* root.after_cancel(id): the callback of that id, if one is still scheduled,
\* is dropped.
after_cancel(st, id) == [st EXCEPT !.after = {c \in st.after : c.id # id}]

stop_flashing(st) ==
    LET s1 == IF st.flash_id # None
              THEN [after_cancel(st, st.flash_id) EXCEPT !.flash_id = None]
              ELSE st
    IN  [s1 EXCEPT !.flashing = FALSE]

\* _flash: toggles flash_state and schedules itself.
flash(st) ==
    LET id == NewId(st)
    IN  [st EXCEPT !.flash_state = ~st.flash_state,
                   !.flash_id = id,
                   !.after = st.after \cup {[id |-> id, cb |-> "_flash"]}]

start_flashing(st) ==
    IF st.flashing THEN st
    ELSE flash([st EXCEPT !.flashing = TRUE, !.flash_state = FALSE])

time_up(st) == start_flashing([st EXCEPT !.timeUps = st.timeUps + 1])

\* _tick with the expiry branch removed: it counts down and schedules itself
\* whatever remaining is.
tick_no_expiry(st) ==
    LET s0 == [st EXCEPT !.ticks = st.ticks + 1]
        id == NewId(s0)
    IN  [s0 EXCEPT !.remaining = s0.remaining - 1,
                   !.timer_id = id,
                   !.after = s0.after \cup {[id |-> id, cb |-> "_tick"]}]

\* _tick keeping the old callback scheduled next to the new one.
tick_twice(st) ==
    LET s0 == [st EXCEPT !.ticks = st.ticks + 1]
        id == NewId(s0)
        id2 == NewId([s0 EXCEPT !.timer_id = id])
    IN  IF s0.remaining <= 0
        THEN time_up([s0 EXCEPT !.running = FALSE])
        ELSE [s0 EXCEPT !.remaining = s0.remaining - 1,
                        !.timer_id = id,
                        !.after = s0.after \cup {[id |-> id, cb |-> "_tick"],
                                                  [id |-> id2, cb |-> "_tick"]}]

tick(st) ==
    LET s0 == [st EXCEPT !.ticks = st.ticks + 1]
        id == NewId(s0)
    IN  IF s0.remaining <= 0
        THEN time_up([s0 EXCEPT !.running = FALSE])
        ELSE [s0 EXCEPT !.remaining = s0.remaining - 1,
                        !.timer_id = id,
                        !.after = s0.after \cup {[id |-> id, cb |-> "_tick"]}]

\* total = max(0, h * 3600 + m * 60 + s), with 0, 0, 0 when int() raised.
TotalOf(spin) ==
    LET hms == IF spin.isint THEN spin.hms ELSE <<0, 0, 0>>
        sum == hms[1] * 3600 + hms[2] * 60 + hms[3]
    IN  IF sum > 0 THEN sum ELSE 0

\* start() with the spinboxes holding spin.
start(st, spin) ==
    IF st.running THEN st
    ELSE LET s1 == IF st.flashing THEN stop_flashing(st) ELSE st
             s2 == [s1 EXCEPT !.remaining = TotalOf(spin), !.total = TotalOf(spin),
                              !.ticks = 0, !.timeUps = 0, !.stopped = FALSE]
         IN  IF s2.remaining <= 0 THEN time_up(s2)
             ELSE tick([s2 EXCEPT !.running = TRUE])

stop(st) ==
    LET s1 == IF st.timer_id # None
              THEN [after_cancel(st, st.timer_id) EXCEPT !.timer_id = None]
              ELSE st
        s2 == [s1 EXCEPT !.running = FALSE, !.stopped = TRUE]
    IN  IF s2.flashing THEN stop_flashing(s2) ELSE s2

NoRet == [type |-> "none", val |-> FZero]

FloatRet(x) == [type |-> "float", val |-> x]

DictRet(r) == [type |-> "dict", val |-> r]

Init ==
    /\ \/ caller = "direct" /\ fn = "flow_from_pump_pressure" /\ args \in FlowInputs
       \/ caller = "direct" /\ fn = "pressure_drop_pipe" /\ args \in DropInputs
       \/ caller = "direct" /\ fn = "minor_loss_coeffs" /\ args \in MinorArgs
       \/ caller = "direct" /\ fn = "friction_factor_haland" /\ args \in FrictionInputs
       \/ caller = "round_trip" /\ fn = "pressure_drop_pipe" /\ args \in TripInputs
       \/ caller = "direct" /\ fn = "CountdownTimer" /\ args = BaseArgs
       \/ caller = "direct" /\ fn = "diff_ymd" /\ args \in DateInputs
    /\ pc = IF fn = "CountdownTimer" THEN "mainloop" ELSE "entry"
    /\ TimerInit
    /\ A = FZero /\ K_total = FZero /\ v = FZero /\ Q = FZero
    /\ i = 0 /\ denom = <<>> /\ loopExit = "none" /\ calls = {}
    /\ outcome = "pending" /\ ret = NoRet

(***************************************************************************)
(* The calculator, one action per step of a call.                          *)
(***************************************************************************)
\* The call ends: with an exception when kind is one, else returning r.
Finish(kind, r) ==
    /\ pc' = "done"
    /\ outcome' = IF kind = "none" THEN "returned" ELSE kind
    /\ ret' = IF kind = "none" THEN r ELSE NoRet

CallMinor ==
    /\ fn = "minor_loss_coeffs" /\ pc = "entry"
    /\ \E r \in {minor_loss_coeffs(args.fittings)} :
           Finish(r.err, FloatRet(r.val))
    /\ UNCHANGED timerVars /\ UNCHANGED <<caller, fn, args, A, K_total, v, Q, i, denom, loopExit, calls>>

CallFriction ==
    /\ fn = "friction_factor_haland" /\ pc = "entry"
    /\ \E r \in {friction_factor_haland(args.d, args.k, args.Re)} :
           Finish(r.err, FloatRet(r.val))
    /\ UNCHANGED timerVars /\ UNCHANGED <<caller, fn, args, A, K_total, v, Q, i, denom, loopExit, calls>>

\* pressure_drop_pipe, the checks at entry (lines 139-145)
DropValidate ==
    /\ fn = "pressure_drop_pipe" /\ pc = "entry"
    /\ IF FLt(args.Q, FZero) THEN Finish("ValueError", NoRet) /\ A' = A
       ELSE IF FLe(args.d, FZero) \/ FLt(args.L, FZero)
       THEN Finish("ValueError", NoRet) /\ A' = A
       ELSE IF FLe(AreaOf(args.d), FZero) THEN Finish("ValueError", NoRet) /\ A' = A
       ELSE pc' = "drop_body" /\ A' = AreaOf(args.d) /\ UNCHANGED <<outcome, ret>>
    /\ UNCHANGED timerVars /\ UNCHANGED <<caller, fn, args, K_total, v, Q, i, denom, loopExit, calls>>

\* pressure_drop_pipe, the computation and the return (lines 146-164)
DropCompute ==
    /\ fn = "pressure_drop_pipe" /\ pc = "drop_body"
    /\ \E vel \in {FDiv(args.Q, A)} :
       \E re \in {ReOrZero(args.rho, args.mu, vel, args.d)} :
       \E fr \in {FrictionOrZero(args.d, args.k, re.val, vel)} :
       \E K \in {KTotalOf(args.fittings)} :
       LET a == args
           half == Dec(5, 10)
           v2 == FMul(vel, vel)
           friction_loss == FMul(FMul(FMul(FMul(fr.val, FDiv(a.L, a.d)), half), a.rho), v2)
           minor_loss == FMul(FMul(FMul(K.val, half), a.rho), v2)
           total_loss == FAdd(friction_loss, minor_loss)
           c1 == IF re.called THEN {"reynolds_number"} ELSE {}
           c2 == IF fr.called THEN {"friction_factor_haland"} ELSE {}
           c3 == IF Truthy(a.fittings) THEN {"minor_loss_coeffs"} ELSE {}
       IN  /\ v' = vel
           /\ IF re.err # "none"
              THEN Finish(re.err, NoRet) /\ calls' = c1 /\ K_total' = K_total
              ELSE IF fr.err # "none"
              THEN Finish(fr.err, NoRet) /\ calls' = c1 \cup c2 /\ K_total' = K_total
              ELSE IF K.err # "none"
              THEN Finish(K.err, NoRet) /\ calls' = c1 \cup c2 \cup c3
                   /\ K_total' = K_total
              ELSE /\ Finish("none",
                        DictRet([Q_m3s |-> a.Q, velocity_m_s |-> vel, Re |-> re.val,
                                 friction_factor |-> fr.val,
                                 friction_loss_Pa |-> friction_loss,
                                 minor_loss_Pa |-> minor_loss,
                                 total_loss_Pa |-> total_loss,
                                 total_loss_psi |-> pa_to_psi(total_loss)]))
                   /\ calls' = c1 \cup c2 \cup c3
                   /\ K_total' = K.val
    /\ UNCHANGED timerVars /\ UNCHANGED <<caller, fn, args, A, Q, i, denom, loopExit>>

\* flow_from_pump_pressure: if pump_deltaP_pa <= 0: return 0.0 (lines 172-173)
FlowEntry ==
    /\ fn = "flow_from_pump_pressure" /\ pc = "entry"
    /\ IF FLe(args.pump_deltaP_pa, FZero)
       THEN Finish("none", FloatRet(FZero))
       ELSE pc' = "flow_seed" /\ UNCHANGED <<outcome, ret>>
    /\ UNCHANGED timerVars /\ UNCHANGED <<caller, fn, args, A, K_total, v, Q, i, denom, loopExit, calls>>

\* flow_from_pump_pressure: A, K_total and the seed velocity (lines 175-180)
FlowSeed ==
    /\ fn = "flow_from_pump_pressure" /\ pc = "flow_seed"
    /\ \E K \in {KTotalOf(args.fittings)} :
       \E dn \in {IF args.d.m = 0 THEN FZero
                  ELSE FMul(args.rho, FAdd(FMul(f_guess, FDiv(args.L, args.d)), K.val))} :
       \E quot \in {IF dn.m = 0 THEN FZero
                    ELSE FDiv(FMul(FromInt(2), args.pump_deltaP_pa), dn)} :
       LET a == args
           c3 == IF Truthy(a.fittings) THEN {"minor_loss_coeffs"} ELSE {}
           abort(kind, dseen) ==
               /\ Finish(kind, NoRet)
               /\ denom' = dseen
               /\ UNCHANGED <<K_total, v, Q>>
       IN  /\ A' = AreaOf(a.d)
           /\ calls' = c3
           /\ IF K.err # "none" THEN abort(K.err, <<>>)
              ELSE IF a.d.m = 0 THEN abort("ZeroDivisionError", <<>>)
              ELSE IF dn.m = 0 THEN abort("ZeroDivisionError", <<dn>>)
              ELSE IF quot.m < 0 THEN abort("ValueError", <<dn>>)
              ELSE /\ K_total' = K.val
                   /\ denom' = <<dn>>
                   /\ v' = FSqrt(quot)
                   /\ Q' = FMul(AreaOf(a.d), FSqrt(quot))
                   /\ pc' = "flow_loop"
                   /\ UNCHANGED <<outcome, ret>>
    /\ UNCHANGED timerVars /\ UNCHANGED <<caller, fn, args, i, loopExit>>

\* flow_from_pump_pressure: one iteration of the for loop (lines 181-192)
FlowIterate ==
    /\ fn = "flow_from_pump_pressure" /\ pc = "flow_loop"
    /\ i < args.maxiter
    /\ \E r \in {IterStep(args, A, K_total, v, Q)} :
           /\ i' = i + 1
           /\ denom' = IF r.denom = <<>> THEN denom ELSE r.denom
           /\ v' = r.v
           /\ Q' = r.Q
           /\ calls' = calls \cup {"reynolds_number"} \cup
                       (IF reynolds_number(args.rho, args.mu, v, args.d).err = "none"
                           /\ FPos(v)
                        THEN {"friction_factor_haland"} ELSE {})
           /\ IF r.err # "none"
              THEN Finish(r.err, NoRet) /\ loopExit' = loopExit
              ELSE IF r.brk
              THEN pc' = "flow_return" /\ loopExit' = "break" /\ UNCHANGED <<outcome, ret>>
              ELSE pc' = "flow_loop" /\ loopExit' = loopExit /\ UNCHANGED <<outcome, ret>>
    /\ UNCHANGED timerVars /\ UNCHANGED <<caller, fn, args, A, K_total>>

\* FlowElse raising on an exhausted iteration budget instead of passing.
FlowElseRaises ==
    /\ fn = "flow_from_pump_pressure" /\ pc = "flow_loop"
    /\ i = args.maxiter
    /\ Finish("RuntimeError", NoRet)
    /\ loopExit' = "else"
    /\ UNCHANGED timerVars /\ UNCHANGED <<caller, fn, args, A, K_total, v, Q, i, denom, calls>>

\* flow_from_pump_pressure: range(maxiter) is exhausted, the else clause of
\* the for loop (lines 193-195)
FlowElse ==
    /\ fn = "flow_from_pump_pressure" /\ pc = "flow_loop"
    /\ i = args.maxiter
    /\ pc' = "flow_return"
    /\ loopExit' = "else"
    /\ UNCHANGED timerVars /\ UNCHANGED <<caller, fn, args, A, K_total, v, Q, i, denom, calls, outcome, ret>>

\* flow_from_pump_pressure: the returned dict (lines 196-202)
FlowReturn ==
    /\ fn = "flow_from_pump_pressure" /\ pc = "flow_return"
    /\ \E re \in {ReOrZero(args.rho, args.mu, v, args.d)} :
       \E fr \in {FrictionOrZero(args.d, args.k, re.val, v)} :
           /\ calls' = calls \cup (IF re.called THEN {"reynolds_number"} ELSE {})
                             \cup (IF re.err = "none" /\ fr.called
                                   THEN {"friction_factor_haland"} ELSE {})
           /\ IF re.err # "none" THEN Finish(re.err, NoRet)
              ELSE IF fr.err # "none" THEN Finish(fr.err, NoRet)
              ELSE Finish("none",
                       DictRet([Q_m3s |-> Q, Q_lpm |-> m3s_to_lpm(Q), velocity_m_s |-> v,
                                Re |-> re.val, friction_factor |-> fr.val]))
    /\ UNCHANGED timerVars /\ UNCHANGED <<caller, fn, args, A, K_total, v, Q, i, denom, loopExit>>

\* The second half of a round trip: the total loss pressure_drop_pipe returned
\* is handed, with the same fluid, geometry and fittings, to a call of
\* flow_from_pump_pressure.
RoundTripInvert ==
    /\ caller = "round_trip" /\ fn = "pressure_drop_pipe"
    /\ pc = "done" /\ outcome = "returned"
    /\ fn' = "flow_from_pump_pressure"
    /\ args' = [args EXCEPT !.pump_deltaP_pa = ret.val.total_loss_Pa]
    /\ pc' = "entry"
    /\ A' = FZero /\ K_total' = FZero /\ v' = FZero /\ Q' = FZero
    /\ i' = 0 /\ denom' = <<>> /\ loopExit' = "none" /\ calls' = {}
    /\ outcome' = "pending" /\ ret' = NoRet
    /\ UNCHANGED caller
    /\ UNCHANGED timerVars

\* A call of diff_ymd(today, future) (src/AIprojects/countdown.py).
CallDiffYmd ==
    /\ fn = "diff_ymd" /\ pc = "entry"
    /\ Finish("none", [type |-> "tuple", val |-> diff_ymd(args.today, args.future)])
    /\ UNCHANGED timerVars /\ UNCHANGED <<caller, fn, args, A, K_total, v, Q, i, denom, loopExit, calls>>

(***************************************************************************)
(* The timer: the two buttons and the callbacks the event loop fires.       *)
(***************************************************************************)
IsTimer == fn = "CountdownTimer"

\* A click on Start.
StartClick ==
    /\ IsTimer
    /\ \E spin \in SpinInputs : Becomes(start(Self, spin))
    /\ UNCHANGED callVars

\* A click on Stop.
StopClick ==
    /\ IsTimer
    /\ Becomes(stop(Self))
    /\ UNCHANGED callVars

\* The event loop fires a scheduled _tick.
TickFires ==
    /\ IsTimer
    /\ \E c \in after :
          /\ c.cb = "_tick"
          /\ Becomes(tick([Self EXCEPT !.after = after \ {c}]))
    /\ UNCHANGED callVars

\* The event loop fires a scheduled _flash.
FlashFires ==
    /\ IsTimer
    /\ \E c \in after :
          /\ c.cb = "_flash"
          /\ Becomes(flash([Self EXCEPT !.after = after \ {c}]))
    /\ UNCHANGED callVars

Next ==
    \/ StartClick
    \/ StopClick
    \/ TickFires
    \/ FlashFires
    \/ CallDiffYmd
    \/ RoundTripInvert
    \/ CallMinor
    \/ CallFriction
    \/ DropValidate
    \/ DropCompute
    \/ FlowEntry
    \/ FlowSeed
    \/ FlowIterate
    \/ FlowElse
    \/ FlowReturn

Spec == Init /\ [][Next]_vars

\* The event loop of Tk fires a scheduled callback once its delay has passed:
\* a _tick that stays scheduled is fired.
FairSpec == Spec /\ WF_vars(TickFires)

TypeOK ==
    /\ pc \in {"entry", "drop_body", "flow_seed", "flow_loop", "flow_return", "done",
              "mainloop"}
    /\ running \in BOOLEAN /\ flashing \in BOOLEAN /\ flash_state \in BOOLEAN
    /\ remaining \in Nat /\ timer_id \in Nat /\ flash_id \in Nat
    /\ \A c \in after : c.cb \in {"_tick", "_flash"} /\ c.id \in Nat \ {None}
    /\ outcome \in {"pending", "returned", "ValueError", "KeyError", "RuntimeError",
                    "ZeroDivisionError", "TypeError"}
    /\ (pc = "done") = (outcome # "pending")
    /\ caller \in {"direct", "round_trip"}
    /\ i \in 0..args.maxiter

(***************************************************************************)
(* Claims                                                                  *)
(***************************************************************************)
IsFlow == fn = "flow_from_pump_pressure"

IsDrop == fn = "pressure_drop_pipe"

Done == pc = "done"

Returned == Done /\ outcome = "returned"

HasUnknown(fittings) ==
    \E j \in 1..Len(fittings.items) : fittings.items[j] \notin DOMAIN STANDARD_FITTING_K

\* C1: every dict returned by flow_from_pump_pressure (pump_deltaP > 0) has
\* Q_m3s = A * velocity_m_s with A = pi*(d/2)^2, and its Re and friction factor
\* are those of that velocity, on the break path and on the exhausted path.
C1_ResultFromFinalVelocity ==
    (IsFlow /\ Returned /\ ret.type = "dict") =>
        /\ ret.val.Q_m3s = FMul(AreaOf(args.d), ret.val.velocity_m_s)
        /\ ret.val.Re = ReOrZero(args.rho, args.mu, ret.val.velocity_m_s, args.d).val
        /\ ret.val.friction_factor =
               FrictionOrZero(args.d, args.k, ret.val.Re, ret.val.velocity_m_s).val

\* C2: with pump_deltaP > 0, a call of flow_from_pump_pressure whose
\* energy-balance denominator is <= 0, at the seed or inside the loop, ends
\* with RuntimeError and nothing else.
C2_BadDenominatorIsRuntimeError ==
    (IsFlow /\ Done /\ FPos(args.pump_deltaP_pa) /\ denom # <<>> /\ FLe(denom[1], FZero)) =>
        outcome = "RuntimeError"

\* C3: with pump_deltaP <= 0, flow_from_pump_pressure returns at once, without
\* an iteration, a result of the shape of its other results (the dict of
\* Q_m3s, Q_lpm, velocity_m_s, Re, friction_factor) with every field 0.
C3_ZeroFlowResult ==
    (IsFlow /\ Done /\ FLe(args.pump_deltaP_pa, FZero)) =>
        /\ outcome = "returned"
        /\ i = 0
        /\ ret.type = "dict"
        /\ ret.val = [Q_m3s |-> FZero, Q_lpm |-> FZero, velocity_m_s |-> FZero,
                      Re |-> FZero, friction_factor |-> FZero]

\* C4: pressure_drop_pipe raises ValueError for every input with Q < 0, d <= 0,
\* L < 0 or mu <= 0, whatever the other arguments.
C4_InvalidArgumentRejected ==
    (IsDrop /\ Done /\ (FLt(args.Q, FZero) \/ FLe(args.d, FZero) \/ FLt(args.L, FZero)
                        \/ FLe(args.mu, FZero))) =>
        (outcome = "ValueError" /\ ret = NoRet)

\* rho > 0, mu > 0, d > 0, L >= 0 and a roughness 0 <= k <= d.
ValidFluidGeometry ==
    /\ FPos(args.rho) /\ FPos(args.mu) /\ FPos(args.d) /\ ~FLt(args.L, FZero)
    /\ ~FLt(args.k, FZero) /\ FLe(args.k, args.d)

FlowKeys == {"Q_m3s", "Q_lpm", "velocity_m_s", "Re", "friction_factor"}

\* C5 as claimed: whenever the for loop of flow_from_pump_pressure ends because
\* range(maxiter) is exhausted, the call does not raise and returns a dict built
\* from the last velocity (the seed velocity for maxiter = 0).
C5_ExhaustedNeverRaises ==
    (IsFlow /\ Done /\ loopExit = "else") =>
        /\ outcome = "returned"
        /\ ret.type = "dict"
        /\ DOMAIN ret.val = FlowKeys
        /\ ret.val.velocity_m_s = v
        /\ ret.val.Q_m3s = FMul(A, v)

\* C5 as amended: for rho > 0, mu > 0, d > 0 and 0 <= k <= d, whenever the for
\* loop ends because range(maxiter) is exhausted, the call does not raise and
\* returns a dict, of the keys of a converged result, built from the last
\* velocity (the seed velocity for maxiter = 0): velocity_m_s is that velocity
\* and Q_m3s is A times it.
C5_ExhaustedReturnsLastEstimate ==
    (IsFlow /\ Done /\ loopExit = "else" /\ FPos(args.rho) /\ FPos(args.mu) /\ FPos(args.d)
        /\ ~FLt(args.k, FZero) /\ FLe(args.k, args.d)) =>
        /\ outcome = "returned"
        /\ ret.type = "dict"
        /\ DOMAIN ret.val = FlowKeys
        /\ ret.val.velocity_m_s = v
        /\ ret.val.Q_m3s = FMul(A, v)

C5_Witness ==
    /\ IsFlow /\ Returned /\ loopExit = "else" /\ ValidFluidGeometry
    /\ args.maxiter >= 2 /\ i = args.maxiter

C5_WitnessSeedOnly ==
    IsFlow /\ Returned /\ loopExit = "else" /\ ValidFluidGeometry /\ args.maxiter = 0

\* The forward call of a round trip has returned and the inverse call is due.
MidTrip == caller = "round_trip" /\ IsDrop /\ Returned

\* Nothing is left to run: the call, or the round trip, has ended.
Ended == Done /\ ~MidTrip

\* Steps still to take: a bound that every step lowers.  The forward half of
\* a round trip has a whole inverse call (maxiter + 4 steps) and the hand-over
\* after it.
StepsLeft ==
    IF caller = "round_trip" /\ IsDrop
    THEN CASE pc = "entry" -> args.maxiter + 7
           [] pc = "drop_body" -> args.maxiter + 6
           [] pc = "done" -> IF MidTrip THEN args.maxiter + 5 ELSE 0
    ELSE CASE pc = "entry" -> args.maxiter + 4
           [] pc = "flow_seed" -> args.maxiter + 3
           [] pc = "flow_loop" -> (args.maxiter - i) + 2
           [] pc = "flow_return" -> 1
           [] pc = "drop_body" -> 1
           [] pc = "done" -> 0

\* The position of a call that has not ended is one some action starts from.
CanStep ==
    \/ pc = "entry" /\ (IsFlow \/ IsDrop \/ fn \in {"minor_loss_coeffs", "friction_factor_haland",
                                                  "diff_ymd"})
    \/ pc = "drop_body" /\ IsDrop
    \/ pc \in {"flow_seed", "flow_return"} /\ IsFlow
    \/ pc = "flow_loop" /\ IsFlow /\ (i < args.maxiter \/ i = args.maxiter)
    \/ MidTrip

\* C6: every call of the calculator ends: a call that has not ended can take a step, and every
\* step lowers a bound that starts at maxiter + 4 (maxiter + 7 when a call
\* of pressure_drop_pipe comes first, in a round trip) and is 0 only at the end;
\* the for loop of flow_from_pump_pressure draws at most maxiter values; a pass
\* whose update has |v_new - v| < tol leaves the loop, any other pass stays in
\* it; and once the loop is left by break, no further pass changes v, Q or the
\* pass count.
C6_LoopStopsAndTerminates ==
    /\ [](IsFlow => i <= args.maxiter)
    /\ [](~IsTimer => (Ended \/ CanStep))
    /\ [](~IsTimer => (StepsLeft >= 0 /\ (StepsLeft = 0 <=> Ended)))
    /\ [][~IsTimer => StepsLeft' < StepsLeft]_vars
    /\ [][(IsFlow /\ pc = "flow_loop" /\ i' = i + 1 /\ outcome' = "pending") =>
            ((pc' = "flow_return" /\ loopExit' = "break")
                <=> FLt(FAbs(FSub(v', v)), args.tol))]_vars
    /\ [][(IsFlow /\ loopExit = "break") => (i' = i /\ v' = v /\ Q' = Q)]_vars

C6_Witness ==
    IsFlow /\ Returned /\ loopExit = "break" /\ i >= 2 /\ i < args.maxiter

\* C7: for rho > 0, mu > 0, d > 0, L >= 0 and fittings all of the catalog
\* (none, an empty list or a list), pressure_drop_pipe with Q = 0 returns
\* velocity, Re, friction factor, friction loss, minor loss and total loss 0,
\* and calls neither reynolds_number nor friction_factor_haland.
C7_ZeroFlowIdentity ==
    (IsDrop /\ Done /\ ValidFluidGeometry /\ args.Q = FZero /\ ~HasUnknown(args.fittings)) =>
        /\ outcome = "returned"
        /\ ret.type = "dict"
        /\ ret.val.velocity_m_s = FZero
        /\ ret.val.Re = FZero
        /\ ret.val.friction_factor = FZero
        /\ ret.val.friction_loss_Pa = FZero
        /\ ret.val.minor_loss_Pa = FZero
        /\ ret.val.total_loss_Pa = FZero
        /\ calls \cap {"reynolds_number", "friction_factor_haland"} = {}

C7_Witness ==
    /\ IsDrop /\ Returned /\ ValidFluidGeometry /\ args.Q = FZero
    /\ Truthy(args.fittings) /\ ~HasUnknown(args.fittings)
    /\ FPos(K_total)

\* C8 as claimed: a fittings list with a name that is not in the catalog, the
\* other arguments valid, makes pressure_drop_pipe and flow_from_pump_pressure
\* raise KeyError, for the inverse solver whatever the sign of pump_deltaP.
C8_UnknownFittingAlwaysRaises ==
    ((IsDrop \/ IsFlow) /\ Done /\ HasUnknown(args.fittings) /\ ValidFluidGeometry
        /\ ~FLt(args.Q, FZero)) =>
        (outcome = "KeyError" /\ ret = NoRet)

\* C8 as amended: the same, for the inverse solver only when pump_deltaP > 0
\* (with pump_deltaP <= 0 it returns before it looks at the fittings).
C8_UnknownFittingRaises ==
    ((IsDrop \/ (IsFlow /\ FPos(args.pump_deltaP_pa))) /\ Done
        /\ HasUnknown(args.fittings) /\ ValidFluidGeometry /\ ~FLt(args.Q, FZero)) =>
        (outcome = "KeyError" /\ ret = NoRet)

C8_Witness ==
    /\ IsFlow /\ Done /\ FPos(args.pump_deltaP_pa) /\ ValidFluidGeometry
    /\ Len(args.fittings.items) = 2 /\ HasUnknown(args.fittings)
    /\ outcome = "KeyError"

C8_WitnessForward ==
    /\ IsDrop /\ Done /\ ValidFluidGeometry /\ FPos(args.Q)
    /\ HasUnknown(args.fittings) /\ outcome = "KeyError"

\* The exact sum of the catalog literals of a list of known names, in hundredths.
RECURSIVE ExactHundredths(_)
ExactHundredths(fs) ==
    IF fs = <<>> THEN 0
    ELSE (FittingLiteral[Head(fs)][1] * (100 \div FittingLiteral[Head(fs)][2]))
         + ExactHundredths(Tail(fs))

\* The lists with the elements of xs in any order.
Perms(xs) ==
    {[j \in 1..Len(xs) |-> xs[p[j]]] :
        p \in {q \in [1..Len(xs) -> 1..Len(xs)] :
                 \A a, b \in 1..Len(xs) : a # b => q[a] # q[b]}}

\* |x - N/100| <= n * 2^-(Prec-1) * N/100: x is N/100 up to n roundings.
WithinRoundings(x, N, n) ==
    IF x.e >= 0 THEN Abs(100 * x.m * Pow2(x.e) - N) * Pow2(Prec - 1) <= n * N
    ELSE Abs(100 * x.m - N * Pow2(-x.e)) * Pow2(Prec - 1) <= n * N * Pow2(-x.e)

IsMinor == fn = "minor_loss_coeffs"

\* C9 as claimed: minor_loss_coeffs returns 0 for None or an empty list; for
\* known names a sum that is the same for every order of the list; and raises
\* KeyError, returning nothing, when a name at any position is unknown.
C9_SumIndependentOfOrder ==
    (IsMinor /\ Done) =>
        /\ ~Truthy(args.fittings) => (outcome = "returned" /\ ret = FloatRet(FZero))
        /\ (Truthy(args.fittings) /\ ~HasUnknown(args.fittings)) =>
              /\ outcome = "returned"
              /\ \A q \in Perms(args.fittings.items) :
                    minor_loss_coeffs(ListOf(q)).val = ret.val
        /\ HasUnknown(args.fittings) => (outcome = "KeyError" /\ ret = NoRet)

\* C9 as amended: minor_loss_coeffs returns 0 for None or an empty list; for
\* known names the floating-point sum of catalog[name] over the list, with
\* multiplicity, which is the exact sum up to one rounding per element (the
\* order of the list can change its last bits); and raises KeyError, returning
\* nothing, when a name at any position is unknown.
C9_SumUpToRounding ==
    (IsMinor /\ Done) =>
        /\ ~Truthy(args.fittings) => (outcome = "returned" /\ ret = FloatRet(FZero))
        /\ (Truthy(args.fittings) /\ ~HasUnknown(args.fittings)) =>
              /\ outcome = "returned"
              /\ ret.type = "float"
              /\ WithinRoundings(ret.val, ExactHundredths(args.fittings.items),
                                 Len(args.fittings.items))
        /\ HasUnknown(args.fittings) => (outcome = "KeyError" /\ ret = NoRet)

C9_Witness ==
    /\ IsMinor /\ Returned /\ Len(args.fittings.items) = 3
    /\ args.fittings.items[1] = args.fittings.items[3]
    /\ args.fittings.items[1] # args.fittings.items[2]

C9_WitnessUnknownLast ==
    /\ IsMinor /\ Done /\ outcome = "KeyError" /\ Len(args.fittings.items) = 3
    /\ ~HasUnknown(ListOf(SubSeq(args.fittings.items, 1, 2)))

IsFriction == fn = "friction_factor_haland"

\* C10: friction_factor_haland raises ValueError for Re <= 0, returns 64/Re
\* for 0 < Re < 2300 and the Haaland value for Re >= 2300, Re = 2300 included;
\* the value at the largest Re below 2300 and the value at 2300 differ.
C10_LaminarTurbulentBranches ==
    (IsFriction /\ Done) =>
        /\ FLe(args.Re, FZero) => (outcome = "ValueError" /\ ret = NoRet)
        /\ (FPos(args.Re) /\ FLt(args.Re, FromInt(LaminarLimit))) =>
              (outcome = "returned" /\ ret = FloatRet(FDiv(FromInt(64), args.Re)))
        /\ ~FLt(args.Re, FromInt(LaminarLimit)) =>
              /\ outcome = "returned"
              /\ ret = FloatRet(HaalandFormula(args.d, args.k, args.Re).val)
        /\ friction_factor_haland(args.d, args.k, BelowLimit).val
              # friction_factor_haland(args.d, args.k, FromInt(LaminarLimit)).val

C10_Witness ==
    /\ IsFriction /\ Returned /\ args.Re = FromInt(LaminarLimit)
    /\ ret.val # FDiv(FromInt(64), args.Re)

C10_WitnessBelow ==
    IsFriction /\ Returned /\ args.Re = BelowLimit

IsTripFlow == caller = "round_trip" /\ IsFlow

\* |x - y| <= y / 100
WithinOnePercent(x, y) == FLe(FAbs(FSub(x, y)), FMul(Dec(1, 100), y))

\* C11 as claimed: for valid inputs with Q > 0, the total loss of
\* pressure_drop_pipe handed to flow_from_pump_pressure, with the same fluid,
\* geometry and fittings, gives back a flow within 1% of Q.
C11_RoundTripRecoversFlow ==
    (IsTripFlow /\ Done) =>
        /\ outcome = "returned"
        /\ ret.type = "dict"
        /\ WithinOnePercent(ret.val.Q_m3s, args.Q)

\* The total loss is positive and the velocity Q/A is at least 1000 tol.
TripResolvable ==
    /\ FPos(args.pump_deltaP_pa)
    /\ FLe(FMul(FromInt(1000), args.tol), FDiv(args.Q, AreaOf(args.d)))

\* C11 as amended: for valid inputs with Q > 0, a positive total loss (L > 0 or
\* fittings with K > 0) and a velocity Q/A of at least 1000 tol, the total
\* loss of pressure_drop_pipe handed to flow_from_pump_pressure, with the same
\* fluid, geometry and fittings and an iteration budget the loop does not
\* run short of, gives back a dict whose Q_m3s is within 1% of Q.
C11_RoundTripWithinOnePercent ==
    (IsTripFlow /\ Done /\ TripResolvable) =>
        /\ outcome = "returned"
        /\ ret.type = "dict"
        /\ WithinOnePercent(ret.val.Q_m3s, args.Q)

C11_Witness ==
    /\ IsTripFlow /\ Returned /\ TripResolvable
    /\ ret.type = "dict"
    /\ FLt(ret.val.Re, FromInt(LaminarLimit))
    /\ ~Truthy(args.fittings)
    /\ i >= 6

C11_WitnessTurbulent ==
    /\ IsTripFlow /\ Returned /\ TripResolvable
    /\ ret.type = "dict"
    /\ ~FLt(ret.val.Re, FromInt(LaminarLimit))
    /\ Truthy(args.fittings) /\ FPos(args.L)

\* The _tick callbacks that are scheduled.
PendingTicks == {c \in after : c.cb = "_tick"}

\* C12: in CountdownTimer, whatever the order of Start clicks, Stop clicks and
\* firings of scheduled callbacks, at most one _tick is scheduled at any time,
\* and running and flashing are never both true.
C12_OneTickChain ==
    IsTimer => (Cardinality(PendingTicks) <= 1 /\ ~(running /\ flashing))

C12_Witness ==
    /\ IsTimer /\ running /\ Cardinality(PendingTicks) = 1
    /\ stopped = FALSE /\ ticks >= 2 /\ flash_id = None /\ remaining > 0

C12_WitnessExpired ==
    /\ IsTimer /\ flashing /\ ~running /\ PendingTicks = {} /\ timer_id # None
    /\ flash_id # timer_id

\* A countdown of total > 0 seconds that no Stop click has touched.
Counting == IsTimer /\ total > 0 /\ ~stopped

\* C13: after start() has read a total of N > 0 seconds, and as long as Stop
\* is not clicked: remaining is N minus the number of _tick calls, down to 0
\* and never below; up to the N-th _tick the timer is running with one _tick
\* scheduled; _time_up is called once, by the (N+1)-th _tick, after which
\* running is false and no _tick is scheduled; and that call of _time_up
\* comes, unless Stop is clicked first.
C13_CountdownExpiresOnce ==
    /\ [](Counting =>
            /\ ticks \in 1..(total + 1)
            /\ remaining >= 0
            /\ remaining = (IF ticks <= total THEN total - ticks ELSE 0)
            /\ timeUps = (IF ticks = total + 1 THEN 1 ELSE 0)
            /\ (ticks <= total) => (running /\ Cardinality(PendingTicks) = 1)
            /\ (ticks = total + 1) => (~running /\ PendingTicks = {} /\ flashing))
    /\ [][(Counting /\ running /\ Counting' /\ ticks' # ticks) =>
            (ticks' = ticks + 1 /\ remaining' = (IF ticks' <= total THEN remaining - 1 ELSE 0))]_vars
    /\ ((Counting /\ timeUps = 0) ~> (stopped \/ (Counting /\ timeUps = 1)))

C13_Witness ==
    /\ Counting /\ total = MaxSeconds /\ ticks = total + 1 /\ timeUps = 1
    /\ ~running /\ flashing /\ remaining = 0

IsDiff == fn = "diff_ymd"

\* C14: for dates today < future, diff_ymd(today, future) returns
\* (years, months, days) with years >= 0, 0 <= months <= 11 and days >= 0.
C14_NoNegativeComponent ==
    (IsDiff /\ Done) =>
        /\ outcome = "returned"
        /\ ret.val.years >= 0
        /\ ret.val.months \in 0..11
        /\ ret.val.days >= 0
====
